---- MODULE Spec2Model ----
(***************************************************************************)
(* MovieCP: the approve / reject workflow of MovieManager, the transfer    *)
(* engine FileCopier.copy_file, the record store (pending_movies,          *)
(* processed_movies) and the ingestion step FileProcessor.process_file.    *)
(* Every orchestrator call is a process whose steps are the places where   *)
(* the code touches the store or the filesystem; the outcome of every      *)
(* external operation (store commit, renamer, directory listing, file      *)
(* I/O) is chosen nondeterministically in the step that performs it.       *)
(* The watcher (MovieFileHandler, FileValidator, FileProcessor) is a        *)
(* second specification over the same store, SpecWatcher.                  *)
(***************************************************************************)
EXTENDS Integers, Sequences, FiniteSets, TLC

\* ---------------------------------------------------------------- bounds
NumCalls == 2     \* orchestrator calls (approve / reject) in one run
MaxId    == 2     \* ids of pending_movies (rows in the table at one time)
MaxRows  == 3     \* records (rows ever held by pending_movies) in one run
NumPaths == 2     \* distinct source paths under the download folder
NumBases == 2     \* distinct titles the renamer can propose: one title as
                  \* printed (1) and lower-cased (2)
SrcSize  == 1     \* size of every source file, in chunks of chunk_size
NumHandlers == 2  \* filesystem events handled in one run of the watcher
MaxVersion == 12  \* version numbers rendered into a suffix
MaxListing == 2   \* files in the target folder when detect_version lists it

\* ------------------------------------------------------- program constants
max_retries == 3      \* file_copier.py:71
min_file_size_mb == 500   \* config.py:14
extension_length == 4     \* config.py:16, every supported extension

\* VersionDetectionConfig.similarity_threshold, 0.9, as a fraction.
similarity_threshold == <<9, 10>>

Calls == 1..NumCalls
Ids   == 1..MaxId
Rows  == 1..MaxRows
Paths == 1..NumPaths
Bases == 1..NumBases
Handlers == 1..NumHandlers

\* A destination filename: the title the renamer proposed and the version
\* suffix rendered by _add_version_suffix (0: no suffix).
Names == Bases \X (0..NumCalls)

NoRow  == [status |-> "absent"]
NoFile == [size |-> -1, by |-> 0]
NoName == <<0, 0>>

VARIABLES
  pending,      \* pending_movies: id -> row (status, error_message, original_path)
                \* and uid, the serial of the INSERT that made the row
  inserted,     \* the number of rows inserted into pending_movies so far
  processed,    \* processed_movies: the set of TerminalRecords
  srcFile,      \* path -> the source file exists
  destFile,     \* name -> the file published under that name in the target folder
  tmpFile,      \* name -> the file name + ".tmp" in the target folder
  verify_mount, \* NetworkShareConfig.verify_mount
  mnamer_format, \* how the installed renamer reports a new name: with an arrow
                \* ("arrow") or with the phrase "renamed to" ("phrase")
  call,         \* call -> the local state of one approve_movie / reject_movie call
  copyCalls,    \* uid -> number of copy_file invocations made for that record
  wfile,        \* path -> the basename, kind and size of the file in the download folder
  wconfig,      \* WatcherConfig: exclude_patterns, supported_extensions
  handler,      \* handler -> the local state of one MovieFileHandler._process_file call
  ingest,       \* the last call of FileProcessor.process_file: its path and outcome
  vd            \* the local state of one VersionDetector call on file names as strings

vars == <<pending, inserted, processed, srcFile, destFile, tmpFile, verify_mount,
          mnamer_format,
          call, copyCalls, wfile, wconfig, handler, ingest, vd>>

watch == <<wfile, wconfig, handler, ingest>>
env == <<verify_mount, mnamer_format>>

store == <<pending, inserted, processed>>
files == <<srcFile, destFile, tmpFile>>

\* File names and patterns are strings, written as tuples of characters.
min_file_size_bytes == min_file_size_mb * 1024 * 1024

\* The sizes a file of the download folder goes through while it is written.
Sizes == <<min_file_size_bytes - 1, min_file_size_bytes, min_file_size_bytes + 1>>

FileNames ==
  { <<"a", ".", "m">>, <<"a", ".", "M">>, <<"a", ".", "p">>, <<"p", ".", "m">>, <<"a">> }

PlainFile == [name |-> <<"a", ".", "m">>, regular |-> TRUE, size |-> Sizes[2]]

DefaultConfig ==
  [exclude_patterns |-> {<<"*", ".", "p">>}, supported_extensions |-> {<<".", "m">>}]

ConfigChoices ==
  [exclude_patterns : { {}, {<<"*", ".", "p">>}, {<<"p", "*">>, <<"a", ".", "M">>} },
   supported_extensions : { {<<".", "m">>}, {<<".", "M">>} }]

IdleHandler == [pc |-> "idle", path |-> 0, size0 |-> 0, size1 |-> 0, res |-> "none"]

IdleVersion ==
  [pc |-> "idle", filename |-> <<>>, listing |-> {}, enabled |-> TRUE,
   check_similar |-> TRUE, version |-> 0, out |-> <<>>, outver |-> 0]

\* No run of the renamer: its exit and its output.
NoRun == [code |-> "none", out |-> <<>>]

NoIngest == [path |-> 0, res |-> "none"]

IdleCall ==
  [pc |-> "idle", op |-> "none", id |-> 0, rec |-> 0, ds |-> FALSE, path |-> 0,
   fpath |-> 0, session |-> FALSE,
   name |-> NoName, ver |-> 0, attempt |-> 0, waits |-> <<>>,
   mountDown |-> FALSE, preExist |-> FALSE, onlyVerify |-> TRUE,
   listFail |-> FALSE, rn |-> NoRun,
   err |-> "none", res |-> "none"]

\* A row as the INSERT of process_file leaves it: status pending, no error.
NewRow(s, u) == [status |-> "pending", error |-> "none", path |-> s, uid |-> u]

\* pending_movies as the processes find it at start: the database file
\* outlives them (init_database creates only the tables that are missing),
\* and holds k records, undisposed, under the ids 1..k, each with its own
\* original_path (the column is unique).
InitialTables ==
  UNION { { [i \in Ids |-> IF i <= k THEN NewRow(f[i], i) ELSE NoRow] :
              f \in {g \in [1..k -> Paths] : \A i, j \in 1..k : i # j => g[i] # g[j]} } :
          k \in 0..MaxId }

Init ==
  /\ pending \in InitialTables
  /\ inserted = Cardinality({i \in Ids : pending[i] # NoRow})
  /\ processed = {}
  /\ srcFile = [s \in Paths |-> TRUE]
  /\ destFile = [n \in Names |-> NoFile]
  /\ tmpFile = [n \in Names |-> NoFile]
  /\ verify_mount \in BOOLEAN
  /\ mnamer_format \in {"arrow", "phrase"}
  /\ call = [p \in Calls |-> IdleCall]
  /\ copyCalls = [u \in Rows |-> 0]
  /\ wfile = [s \in Paths |-> PlainFile]
  /\ wconfig = DefaultConfig
  /\ handler = [h \in Handlers |-> IdleHandler]
  /\ ingest = NoIngest
  /\ vd = IdleVersion

Set(p, r) == call' = [call EXCEPT ![p] = r]

Exists(i) == pending[i].status # "absent"

\* ------------------------------------------------------------ ingestion
\* The id SQLite gives the next row of pending_movies: the column is an
\* INTEGER PRIMARY KEY without AUTOINCREMENT, so it is one more than the
\* largest id in the table, and the id of a deleted last row is given again.
next_rowid ==
  IF \E i \in Ids : Exists(i)
  THEN (CHOOSE i \in Ids : Exists(i) /\ \A j \in Ids : Exists(j) => j <= i) + 1
  ELSE 1

\* session.add(pending_movie); session.commit(): the new row, status pending.
insert_pending(s) ==
  /\ inserted < MaxRows
  /\ next_rowid \in Ids
  /\ pending' = [pending EXCEPT ![next_rowid] = NewRow(s, inserted + 1)]
  /\ inserted' = inserted + 1

\* The keyword arguments of the PendingMovie(...) call of process_file.
ConstructorKeywords ==
  {"original_path", "original_filename", "file_size", "status", "file_metadata"}

\* The attributes the mapped class PendingMovie declares.
PendingMovieAttributes ==
  {"id", "original_path", "original_filename", "file_size", "detected_at", "status",
   "error_message", "metadata"}

constructor_accepts_any(kwargs) == TRUE

\* The constructor of a mapped class: TypeError for a keyword argument that
\* is no attribute of the class.
constructor_accepts(kwargs) == kwargs \subseteq PendingMovieAttributes

AlreadyTrackedNever(s) == FALSE

\* The query of process_file: a row with that original_path, of any status.
AlreadyTracked(s) == \E i \in Ids : Exists(i) /\ pending[i].path = s

\* FileProcessor.process_file for a validated file: None ("tracked") when a
\* row with that original_path exists; else the row is built and committed
\* ("created"), and every exception of the block (the PendingMovie(...)
\* call, the commit) is re-raised as DatabaseError. processed_movies is not
\* read, and neither is the file: the handler looked at it before the call,
\* and it may have gone since.
process_file(s) ==
  IF AlreadyTracked(s)
  THEN /\ UNCHANGED <<pending, inserted>>
       /\ ingest' = [path |-> s, res |-> "tracked"]
  ELSE IF ~constructor_accepts(ConstructorKeywords)
  THEN /\ UNCHANGED <<pending, inserted>>
       /\ ingest' = [path |-> s, res |-> "database_error"]
  ELSE \/ /\ insert_pending(s)
          /\ ingest' = [path |-> s, res |-> "created"]
       \/ /\ UNCHANGED <<pending, inserted>>
          /\ ingest' = [path |-> s, res |-> "database_error"]

\* process_file called for a path of the download folder, by the watcher
\* process, while the web process runs the orchestrator.
Ingest(s) ==
  /\ process_file(s)
  /\ UNCHANGED <<processed, files, env, wfile, wconfig, handler, vd, call, copyCalls>>

\* --------------------------------------------------- the control surface
\* A request arrives: approve(id, delete_source) or reject(id, delete_source).
\* Calls are numbered in the order they arrive. delete_source is read once,
\* after the disposition commit, and is drawn there (Finish).
StartCall(p) ==
  /\ call[p].pc = "idle"
  /\ \A q \in Calls : q < p => call[q].pc # "idle"
  /\ \E o \in {"approve", "reject"}, i \in Ids :
       Set(p, [call[p] EXCEPT !.pc = IF o = "approve" THEN "a_read" ELSE "r_read",
                              !.op = o, !.id = i])
  /\ UNCHANGED <<store, files, env, watch, vd, copyCalls>>

\* The call returns (or raises): its locals are gone, the result stays, and
\* so does a session that was not closed.
Return(c, r) ==
  [IdleCall EXCEPT !.pc = "done", !.op = c.op, !.id = c.id, !.rec = c.rec,
                   !.ds = c.ds, !.session = c.session,
                   !.err = c.err, !.res = r]

\* The same requests as the shipped control surface runs them: the routes are
\* coroutines that call the blocking orchestrator on the event loop, so one
\* call runs to its end before the next begins.
StartCallSerial(p) ==
  /\ \A q \in Calls : call[q].pc \in {"idle", "done"}
  /\ StartCall(p)

\* ------------------------------------------------------------- sessions
\* with get_db_session() as session: the call holds a session of the store
\* from the entry of the block ...
open_session(c) == [c EXCEPT !.session = TRUE]

close_session_never(c) == c

\* ... until the block is left, by its end, a return or an exception: the
\* finally clause of get_db_session closes the session.
close_session(c) == [c EXCEPT !.session = FALSE]

\* ------------------------------------------------ approve_movie, step 1-2
ApprovableAlsoFailed(status) == status \in {"pending", "failed"}

\* The status test of approve_movie.
Approvable(status) == status = "pending"

\* The first session is opened and queried: not found / not pending return
\* from inside the block, without a write.
ApproveRead(p) ==
  /\ call[p].pc = "a_read"
  /\ LET i == call[p].id
         c == open_session(call[p])
     IN IF ~Exists(i) THEN Set(p, Return(close_session(c), "not_found"))
        ELSE IF ~Approvable(pending[i].status)
        THEN Set(p, Return(close_session(c), "invalid_state"))
        ELSE Set(p, [c EXCEPT !.pc = "a_commit", !.path = pending[i].path,
                              !.rec = pending[i].uid])
  /\ UNCHANGED <<store, files, env, watch, vd, copyCalls>>

\* movie.status = "processing"; session.commit(). The UPDATE is by primary
\* key: it fails (StaleDataError) only when the row is gone, and the commit
\* itself can fail; both leave the with-block as an exception, outside try.
\* The block ends with the commit: the renamer is called after it.
ApproveCommit(p) ==
  /\ call[p].pc = "a_commit"
  /\ LET i == call[p].id
         c == close_session(call[p])
     IN \E ok \in BOOLEAN :
          IF ok /\ Exists(i)
          THEN /\ pending' = [pending EXCEPT ![i].status = "processing"]
               /\ Set(p, [c EXCEPT !.pc = "a_rename"])
          ELSE /\ pending' = pending
               /\ Set(p, Return(c, "raised"))
  /\ UNCHANGED <<inserted, processed, files, env, watch, vd, copyCalls>>

Fail(c, e) == [c EXCEPT !.pc = "a_fail", !.err = e]

\* ---------------------------------------------------- approve_movie, step 3
\* The output of the renamer is a list of lines, a line a list of tokens: the
\* two arrows, the phrase "renamed to", other text, and titles (Bases).
AsciiArrow == <<"->", 0>>
UnicodeArrow == <<"RIGHTWARDS ARROW", 0>>
RenamedTo == <<"renamed to", 0>>
Text == <<"text", 0>>
Title(b) == <<"title", b>>

NoTitle == 0

\* str.lower() of a title: an odd base is a title with capital letters and
\* the base after it the same title in lower case.
lower_title(b) == IF b % 2 = 1 /\ b < NumBases THEN b + 1 ELSE b

\* line.lower(): the titles of the line lower-cased; the arrows stay, and
\* RenamedTo stands for the phrase in any case.
lower_line(line) ==
  [k \in 1..Len(line) |->
     IF line[k][1] = "title" THEN Title(lower_title(line[k][2])) ELSE line[k]]

Has(line, tok) == \E k \in 1..Len(line) : line[k] = tok

\* line.split(sep)[-1]: what follows the last sep of the line.
AfterLast(line, sep) ==
  LET k == CHOOSE j \in 1..Len(line) :
             line[j] = sep /\ \A l \in (j + 1)..Len(line) : line[l] # sep
  IN SubSeq(line, k + 1, Len(line))

\* parts[-1].strip().strip('"').strip("'"), then basename: the title that
\* stands there, or the empty string (NoTitle).
NewName(part) == IF part = <<>> THEN NoTitle ELSE part[Len(part)][2]

\* MovieRenamer._parse_mnamer_output: the first line with an arrow decides;
\* without any, the first line with "renamed to", which is split after
\* line.lower(), so the name comes out lower-cased; else None (NoTitle).
parse_mnamer_output(output) ==
  LET arrows == {k \in 1..Len(output) :
                   Has(output[k], AsciiArrow) \/ Has(output[k], UnicodeArrow)}
      phrases == {k \in 1..Len(output) : Has(output[k], RenamedTo)}
      First(S) == CHOOSE k \in S : \A j \in S : k <= j
  IN IF arrows # {}
     THEN LET line == output[First(arrows)] IN
            NewName(AfterLast(line, IF Has(line, AsciiArrow) THEN AsciiArrow
                                                              ELSE UnicodeArrow))
     ELSE IF phrases # {}
     THEN NewName(AfterLast(lower_line(output[First(phrases)]), RenamedTo))
     ELSE NoTitle

\* The titles the renamer prints: those of the movie format "{name} ({year})"
\* filled from the metadata provider, with their capital letters.
PrintedTitles == {b \in Bases : lower_title(b) # b}

\* The lines in which the installed renamer reports the new name b.
ReportLines(b) ==
  IF mnamer_format = "arrow"
  THEN { << <<Text>>, <<Text, AsciiArrow, Title(b)>> >>,
         << <<Text, UnicodeArrow, Title(b)>> >> }
  ELSE { << <<Text, RenamedTo, Title(b)>> >>,
         << <<Text, AsciiArrow>>, <<Text, RenamedTo, Title(b)>> >> }

\* The runs of the renamer: exit code zero with each output, a non-zero exit
\* with a well-formed output, and a timeout.
RenamerOutputs ==
  { <<>>, << <<Text>> >> } \cup UNION { ReportLines(b) : b \in PrintedTitles }

RenamerRuns ==
  [code : {"zero"}, out : RenamerOutputs]
  \cup [code : {"nonzero"}, out : UNION { ReportLines(b) : b \in PrintedTitles }]
  \cup [code : {"timeout"}, out : {<<>>}]

\* MovieRenamer.rename_movie: the new filename, or NoTitle when it returns
\* None (non-zero exit, nothing parsed) or raises MnamerError (timeout).
rename_movie(run) ==
  IF run.code = "zero" THEN parse_mnamer_output(run.out) ELSE NoTitle

\* rename_movie, lines 39-45: the test that the source exists; MnamerError
\* when it does not. Otherwise the command is built and the renamer process
\* started: rename_movie waits in subprocess.run until it ends.
ApproveRenameTest(p) ==
  /\ call[p].pc = "a_rename"
  /\ IF ~srcFile[call[p].path]
     THEN Set(p, Fail(call[p], "mnamer"))
     ELSE Set(p, [call[p] EXCEPT !.pc = "a_mnamer"])
  /\ UNCHANGED <<store, files, env, watch, vd, copyCalls>>

\* The renamer process ends: rename_movie and the "if not new_filename"
\* test of approve_movie. A timeout, a non-zero exit and an output without
\* a parsable name all end in MnamerError. The command is run without a
\* dry-run flag: the renamer process itself moves the source file to the
\* new name (moved) when the file is still there, whatever its exit and its
\* output turn out to be, unless it found nothing to rename.
ApproveRename(p) ==
  /\ call[p].pc = "a_mnamer"
  /\ \E run \in RenamerRuns, moved \in BOOLEAN :
       LET new_filename == rename_movie(run) IN
         /\ moved => srcFile[call[p].path]
         /\ srcFile' = IF moved THEN [srcFile EXCEPT ![call[p].path] = FALSE]
                                ELSE srcFile
         /\ IF new_filename = NoTitle
            THEN Set(p, [Fail(call[p], "mnamer") EXCEPT !.rn = run])
            ELSE Set(p, [call[p] EXCEPT !.pc = "a_detect", !.rn = run,
                                       !.name = <<new_filename, 0>>])
  /\ UNCHANGED <<store, destFile, tmpFile, env, watch, vd, copyCalls>>

\* ---------------------------------------------------- approve_movie, step 4
\* VersionDetector._extract_version_number: 1 without a suffix.
extract_version_number(n) == IF n[2] = 0 THEN 1 ELSE n[2]

SetMax(S) == CHOOSE x \in S : \A y \in S : y <= x

\* A file of the target folder: <<title, version suffix, temp>>, temp = 1
\* for the file "<name>.tmp" of a transfer.
Published(n) == <<n[1], n[2], 0>>
Temp(n) == <<n[1], n[2], 1>>

\* _get_base_name of a listed file, as the number of characters it has more
\* than the title: none for a published file (extension and version suffix
\* are removed); for "<name>.tmp" only ".tmp" is removed, the extension and
\* the version suffix ".v<n>" stay.
base_name_extra(f) ==
  IF f[3] = 0 THEN 0
  ELSE extension_length + (IF f[2] = 0 THEN 0 ELSE 2 + (IF f[2] < 10 THEN 1 ELSE 2))

\* _calculate_similarity(title, title + extra) >= similarity_threshold, for
\* a title of title_length characters: the ratio is 2 * M / T with M the
\* title_length matching characters and T the two lengths together.
similar(title_length, extra) ==
  similarity_threshold[2] * 2 * title_length
    >= similarity_threshold[1] * (2 * title_length + extra)

\* VersionDetector._find_matches on the abstract names: the files whose base
\* name is the title ignoring case, or close enough to it.
find_matches(n, listing, title_length) ==
  {f \in listing :
     /\ lower_title(f[1]) = lower_title(n[1])
     /\ base_name_extra(f) = 0 \/ similar(title_length, base_name_extra(f))}

\* VersionDetector._get_highest_version.
get_highest_version(matches) == SetMax({extract_version_number(f) : f \in matches} \cup {0})

\* VersionDetector.detect_version: <<versioned filename, version number>>.
detect_version(n, listing, title_length) ==
  LET matches == find_matches(n, listing, title_length) IN
    IF matches = {} THEN <<n, 1>>
    ELSE LET v == get_highest_version(matches) + 1 IN <<(<<n[1], v>>), v>>

\* The files in the target folder: the published names and the temp files.
target_folder ==
  {Published(n) : n \in {m \in Names : destFile[m] # NoFile}}
    \cup {Temp(n) : n \in {m \in Names : tmpFile[m] # NoFile}}

list_directory_ignoring_errors(readable) == target_folder

\* VersionDetector._list_directory: the files of the target folder, or the
\* empty list when the directory cannot be read.
list_directory(readable) == IF readable THEN target_folder ELSE {}

\* The lengths of the proposed title at which the similarity of a temp file
\* changes: "<title>.mkv" passes from 18 characters on, "<title>.v2.mkv"
\* from 32.
TitleLengths == {17, 18, 32}

ApproveDetect(p) ==
  /\ call[p].pc = "a_detect"
  /\ \E readable \in BOOLEAN, title_length \in TitleLengths :
       LET r == detect_version(call[p].name, list_directory(readable), title_length)
       IN Set(p, [call[p] EXCEPT !.pc = "c_start", !.name = r[1], !.ver = r[2],
                                 !.listFail = ~readable, !.rn = NoRun])
  /\ UNCHANGED <<store, files, env, watch, vd, copyCalls>>

\* ------------------------------------------------------ FileCopier.copy_file
MountProbeSkipped(reachable) == FALSE

\* The precondition of copy_file: NetworkShareError when verify_mount is set
\* and is_mount_accessible(mount_path) is false.
MountProbeRaises(reachable) == verify_mount /\ ~reachable

ExistingDestinationAborts(n) == destFile[n] # NoFile

\* Lines 59-61: an existing dest_path is logged as a warning, nothing more.
ExistingDestinationRaises(n) == FALSE

\* Lines 43-68: the mount probe (only when verify_mount), ensure_directory,
\* the exists warning and the source size. NetworkShareError is re-raised;
\* every other exception becomes FileCopyError.
CopyStart(p) ==
  /\ call[p].pc = "c_start"
  /\ copyCalls' = [copyCalls EXCEPT ![call[p].rec] = @ + 1]
  /\ \E reachable \in BOOLEAN, mkdirOk \in BOOLEAN :
       LET c == [call[p] EXCEPT !.mountDown = ~reachable] IN
         IF MountProbeRaises(reachable) THEN Set(p, Fail(c, "share"))
         ELSE IF ~mkdirOk \/ ExistingDestinationRaises(c.name) \/ ~srcFile[c.path]
              THEN Set(p, Fail(c, "copy"))
         ELSE Set(p, [c EXCEPT !.pc = "c_stream", !.attempt = 0,
                               !.preExist = (destFile[c.name] # NoFile)])
  /\ UNCHANGED <<store, files, env, watch, vd>>

\* FileCopier._stream_copy to the temp path: the open can fail before the
\* temp file is touched; otherwise the temp file is (re)created and holds s
\* chunks when the copy ends, with or without an error.
CopyStream(p) ==
  /\ call[p].pc = "c_stream"
  /\ LET c == call[p] IN
       \/ /\ tmpFile' = tmpFile
          /\ Set(p, [c EXCEPT !.pc = "c_cleanup", !.onlyVerify = FALSE])
       \/ /\ srcFile[c.path]
          /\ \E s \in 0..SrcSize, raised \in BOOLEAN :
               /\ tmpFile' = [tmpFile EXCEPT ![c.name] = [size |-> s, by |-> p]]
               /\ Set(p, IF raised THEN [c EXCEPT !.pc = "c_cleanup", !.onlyVerify = FALSE]
                                   ELSE [c EXCEPT !.pc = "c_verify"])
  /\ UNCHANGED <<store, srcFile, destFile, env, watch, vd, copyCalls>>

verify_copy_exists_only(s, n, ioOk) == ioOk /\ srcFile[s] /\ tmpFile[n] # NoFile

\* FileCopier._verify_copy: equal sizes; any error reading a size is False.
verify_copy(s, n, ioOk) ==
  ioOk /\ srcFile[s] /\ tmpFile[n] # NoFile /\ tmpFile[n].size = SrcSize

CopyVerify(p) ==
  /\ call[p].pc = "c_verify"
  /\ \E ioOk \in BOOLEAN :
       IF verify_copy(call[p].path, call[p].name, ioOk)
       THEN Set(p, [call[p] EXCEPT !.pc = "c_publish"])
       ELSE Set(p, [call[p] EXCEPT !.pc = "c_cleanup"])
  /\ UNCHANGED <<store, files, env, watch, vd, copyCalls>>

\* os.rename(temp_path, dest_path) and the return of dest_path.
CopyPublish(p) ==
  /\ call[p].pc = "c_publish"
  /\ LET c == call[p] IN
       \E ok \in BOOLEAN :
         IF ok /\ tmpFile[c.name] # NoFile
         THEN /\ destFile' = [destFile EXCEPT ![c.name] = tmpFile[c.name]]
              /\ tmpFile' = [tmpFile EXCEPT ![c.name] = NoFile]
              /\ Set(p, [c EXCEPT !.pc = "a_final"])
         ELSE /\ UNCHANGED <<destFile, tmpFile>>
              /\ Set(p, [c EXCEPT !.pc = "c_cleanup", !.onlyVerify = FALSE])
  /\ UNCHANGED <<store, srcFile, env, watch, vd, copyCalls>>

\* The except branch of one attempt: remove the temp file when it exists (a
\* failing remove is swallowed), re-raise after the last attempt, else sleep
\* 2 ** attempt seconds and try again.
backoff_fixed(attempt) == 1

\* time.sleep(2 ** attempt), attempt counted from 0.
backoff(attempt) == 2 ^ attempt

CopyCleanupRemovingFinal(p) ==
  /\ call[p].pc = "c_cleanup"
  /\ LET c == call[p] IN
       \E rmOk \in BOOLEAN :
         /\ tmpFile' = IF rmOk THEN [tmpFile EXCEPT ![c.name] = NoFile] ELSE tmpFile
         /\ destFile' = IF rmOk THEN [destFile EXCEPT ![c.name] = NoFile] ELSE destFile
         /\ IF c.attempt = max_retries - 1
               THEN Set(p, Fail(c, "copy"))
               ELSE Set(p, [c EXCEPT !.pc = "c_stream", !.attempt = @ + 1,
                                     !.waits = Append(@, backoff(c.attempt))])
  /\ UNCHANGED <<store, srcFile, env, watch, vd, copyCalls>>

CopyCleanup(p) ==
  /\ call[p].pc = "c_cleanup"
  /\ LET c == call[p] IN
       \E rmOk \in BOOLEAN :
         /\ tmpFile' = IF rmOk THEN [tmpFile EXCEPT ![c.name] = NoFile] ELSE tmpFile
         /\ IF c.attempt = max_retries - 1
               THEN Set(p, Fail(c, "copy"))
               ELSE Set(p, [c EXCEPT !.pc = "c_stream", !.attempt = @ + 1,
                                     !.waits = Append(@, backoff(c.attempt))])
  /\ UNCHANGED <<store, srcFile, destFile, env, watch, vd, copyCalls>>

\* FileCopier.delete_source: a failure is logged, never raised.
delete_source(s, ok) ==
  srcFile' = IF ok THEN [srcFile EXCEPT ![s] = FALSE] ELSE srcFile

\* After the disposition commit: the optional source deletion, or the result.
Finish(c, next, d) ==
  IF d THEN [c EXCEPT !.pc = next, !.ds = TRUE] ELSE Return(c, "success")

\* ---------------------------------------------------- approve_movie, step 6
\* The step-4 session queries the row by id again: the record it disposes,
\* and the original_path it writes, are those of the row it finds now.
ApproveFinalRead(p) ==
  /\ call[p].pc = "a_final"
  /\ LET c == open_session(call[p]) IN
       IF Exists(c.id)
       THEN Set(p, [c EXCEPT !.pc = "a_final_commit",
                             !.rec = pending[c.id].uid,
                             !.fpath = pending[c.id].path])
       ELSE \E d \in BOOLEAN : Set(p, Finish(close_session(c), "a_delsrc", d))
  /\ UNCHANGED <<store, files, env, watch, vd, copyCalls>>

Terminal(c, p, action) ==
  [pid |-> c.rec, path |-> IF action = "approved" THEN c.fpath ELSE c.path,
   action |-> action,
   final |-> IF action = "approved" THEN c.name ELSE NoName,
   ver |-> IF action = "approved" THEN c.ver ELSE 1,
   by |-> p]

DisposeReplacingHistory(c, p, action) ==
  /\ processed' = {Terminal(c, p, action)}
  /\ pending' = [pending EXCEPT ![c.id] = NoRow]

DisposeKeepingRow(c, p, action) ==
  /\ processed' = processed \cup {Terminal(c, p, action)}
  /\ pending' = pending

\* session.add(processed); session.delete(movie); session.commit(): one
\* transaction. A DELETE that matches no row is only warned about.
Dispose(c, p, action) ==
  /\ processed' = processed \cup {Terminal(c, p, action)}
  /\ pending' = [pending EXCEPT ![c.id] = NoRow]

\* An exception of the step-6 session: the generic except branch is entered
\* and the lines after the with-block (source deletion, result) are skipped.
CommitFailed(c) == Fail(c, "unexpected")

ApproveFinalCommit(p) ==
  /\ call[p].pc = "a_final_commit"
  /\ LET c == close_session(call[p]) IN
       \E ok \in BOOLEAN, d \in BOOLEAN :
         IF ok
         THEN /\ Dispose(c, p, "approved")
              /\ Set(p, Finish(c, "a_delsrc", d))
         ELSE /\ UNCHANGED <<processed, pending>>
              /\ Set(p, CommitFailed(c))
  /\ UNCHANGED <<inserted, files, env, watch, vd, copyCalls>>

ApproveDeleteSource(p) ==
  /\ call[p].pc = "a_delsrc"
  /\ \E ok \in BOOLEAN : delete_source(call[p].path, ok)
  /\ Set(p, Return(call[p], "success"))
  /\ UNCHANGED <<store, destFile, tmpFile, env, watch, vd, copyCalls>>

\* The two except branches: status = failed with the error text, in a new
\* session; an exception of that session leaves approve_movie.
FailedRowWithoutMessage(row, e) == [row EXCEPT !.status = "failed"]

FailedRowRequeued(row, e) == [row EXCEPT !.status = "pending", !.error = e]

\* failed_movie.status = "failed"; failed_movie.error_message = str(e).
FailedRow(row, e) == [row EXCEPT !.status = "failed", !.error = e]

\* The query of the except branch: without a row nothing is written and the
\* unsuccessful result is returned.
ApproveFailRead(p) ==
  /\ call[p].pc = "a_fail"
  /\ LET c == open_session(call[p]) IN
       IF Exists(c.id)
       THEN Set(p, [c EXCEPT !.pc = "a_fail_commit"])
       ELSE Set(p, Return(close_session(c), "failed"))
  /\ UNCHANGED <<store, files, env, watch, vd, copyCalls>>

\* The UPDATE by primary key and the commit of the except branch: the UPDATE
\* matches no row (StaleDataError) when the row went away after the query,
\* and the commit itself can fail; both leave approve_movie as an exception.
ApproveFailCommit(p) ==
  /\ call[p].pc = "a_fail_commit"
  /\ LET i == call[p].id
         c == close_session(call[p])
     IN \E ok \in BOOLEAN :
          IF ok /\ Exists(i)
          THEN /\ pending' = [pending EXCEPT ![i] = FailedRow(@, c.err)]
               /\ Set(p, Return(c, "failed"))
          ELSE /\ pending' = pending
               /\ Set(p, Return(c, "raised"))
  /\ UNCHANGED <<inserted, processed, files, env, watch, vd, copyCalls>>

\* ------------------------------------------------------------ reject_movie
RejectablePendingOnly(status) == status = "pending"

\* reject_movie tests only that the row exists: every status is rejectable.
Rejectable(status) == TRUE

RejectRead(p) ==
  /\ call[p].pc = "r_read"
  /\ LET i == call[p].id
         c == open_session(call[p])
     IN IF ~Exists(i) THEN Set(p, Return(close_session(c), "not_found"))
        ELSE IF ~Rejectable(pending[i].status)
        THEN Set(p, Return(close_session(c), "invalid_state"))
        ELSE Set(p, [c EXCEPT !.pc = "r_commit", !.path = pending[i].path,
                              !.rec = pending[i].uid])
  /\ UNCHANGED <<store, files, env, watch, vd, copyCalls>>

RejectCommit(p) ==
  /\ call[p].pc = "r_commit"
  /\ LET c == close_session(call[p]) IN
       \E ok \in BOOLEAN, d \in BOOLEAN :
         IF ok
         THEN /\ Dispose(c, p, "rejected")
              /\ Set(p, Finish(c, "r_delsrc", d))
         ELSE /\ UNCHANGED <<processed, pending>>
              /\ Set(p, Return(c, "failed"))
  /\ UNCHANGED <<inserted, files, env, watch, vd, copyCalls>>

RejectDeleteSource(p) ==
  /\ call[p].pc = "r_delsrc"
  /\ \E ok \in BOOLEAN : delete_source(call[p].path, ok)
  /\ Set(p, Return(call[p], "success"))
  /\ UNCHANGED <<store, destFile, tmpFile, env, watch, vd, copyCalls>>

\* One step of a call in flight.
Step(p) ==
  \/ ApproveRead(p)
  \/ ApproveCommit(p)
  \/ ApproveRenameTest(p)
  \/ ApproveRename(p)
  \/ ApproveDetect(p)
  \/ CopyStart(p)
  \/ CopyStream(p)
  \/ CopyVerify(p)
  \/ CopyPublish(p)
  \/ CopyCleanup(p)
  \/ ApproveFinalRead(p)
  \/ ApproveFinalCommit(p)
  \/ ApproveDeleteSource(p)
  \/ ApproveFailRead(p)
  \/ ApproveFailCommit(p)
  \/ RejectRead(p)
  \/ RejectCommit(p)
  \/ RejectDeleteSource(p)

\* The program as shipped: the watcher process ingests while the web process
\* runs the orchestrator calls one at a time.
Next ==
  \/ \E s \in Paths : Ingest(s)
  \/ \E p \in Calls : StartCallSerial(p)
  \/ \E p \in Calls : Step(p)

Spec == Init /\ [][Next]_vars

\* FileProcessor.update_status: no row, False and no write; else the status
\* is set to the one given, the error_message only when one is given, and
\* the commit either goes through or fails (DatabaseError). No code of the
\* program calls it: it is a step of SpecApi only.
update_status(i, status, error_message) ==
  /\ Exists(i)
  /\ \E ok \in BOOLEAN :
       pending' = IF ok
                  THEN [pending EXCEPT ![i].status = status,
                                       ![i].error = IF error_message # "none"
                                                    THEN error_message ELSE @]
                  ELSE pending
  /\ UNCHANGED <<inserted, processed, files, env, watch, vd, call, copyCalls>>

\* The orchestrator with update_status open to a caller who requeues a
\* record or marks it failed, under the default configuration.
NextApi ==
  \/ \E p \in Calls : StartCallSerial(p)
  \/ \E p \in Calls : Step(p)
  \/ \E i \in Ids, status \in {"pending", "failed"},
        error_message \in {"none", "manual"} : update_status(i, status, error_message)

InitApi ==
  /\ Init
  /\ verify_mount = TRUE
  /\ mnamer_format = "arrow"

SpecApi == InitApi /\ [][NextApi]_vars

\* The orchestrator under concurrent callers: calls overlap freely, on the
\* records the store holds. The configuration is the default one and the
\* renamer reports with an arrow.
InitConcurrent ==
  /\ Init
  /\ verify_mount = TRUE
  /\ mnamer_format = "arrow"

NextConcurrent ==
  \/ \E p \in Calls : StartCall(p)
  \/ \E p \in Calls : Step(p)

SpecConcurrent == InitConcurrent /\ [][NextConcurrent]_vars

\* ============================================================ the watcher
\* ------------------------------------------------------- string functions
StartsWith(s, pre) == Len(pre) <= Len(s) /\ SubSeq(s, 1, Len(pre)) = pre

EndsWith(s, suf) == Len(suf) <= Len(s) /\ SubSeq(s, Len(s) - Len(suf) + 1, Len(s)) = suf

\* str.lower() on the alphabet of the model.
LowerChar(ch) ==
  IF ch = "M" THEN "m" ELSE IF ch = "P" THEN "p" ELSE IF ch = "A" THEN "a" ELSE ch

lower(s) == [i \in 1..Len(s) |-> LowerChar(s[i])]

\* str.rfind("."): 0 when there is no dot.
LastDot(s) ==
  IF \E i \in 1..Len(s) : s[i] = "."
  THEN CHOOSE i \in 1..Len(s) : s[i] = "." /\ \A j \in (i + 1)..Len(s) : s[j] # "."
  ELSE 0

\* pathlib's suffix: from the last dot, unless the dot leads or ends the name.
suffix(name) ==
  LET i == LastDot(name) IN
    IF 1 < i /\ i < Len(name) THEN SubSeq(name, i, Len(name)) ELSE <<>>

is_video_file_case_sensitive(name, supported_extensions) ==
  suffix(name) \in supported_extensions

\* helpers.is_video_file: the lowered suffix is in the lowered list.
is_video_file(name, supported_extensions) ==
  lower(suffix(name)) \in {lower(e) : e \in supported_extensions}

matches_exclude_pattern_exact_only(filename, exclude_patterns) ==
  \E pattern \in exclude_patterns : pattern = filename

\* FileValidator._matches_exclude_pattern on the basename.
matches_exclude_pattern(filename, exclude_patterns) ==
  \E pattern \in exclude_patterns :
    \/ Len(pattern) > 0 /\ pattern[1] = "*" /\ EndsWith(filename, Tail(pattern))
    \/ Len(pattern) > 0 /\ pattern[Len(pattern)] = "*"
         /\ StartsWith(filename, SubSeq(pattern, 1, Len(pattern) - 1))
    \/ pattern = filename

is_file_stable_nonshrinking(initial_size, final_size) == final_size >= initial_size

\* FileValidator._is_file_stable once both sizes were read.
is_file_stable(initial_size, final_size) == initial_size = final_size

\* ----------------------------------------------------------- environment
\* The downloader appends to a file of the download folder.
FileWrite(s) ==
  /\ srcFile[s]
  /\ \E k \in 1..(Len(Sizes) - 1) :
       /\ wfile[s].size = Sizes[k]
       /\ wfile' = [wfile EXCEPT ![s].size = Sizes[k + 1]]
  /\ UNCHANGED <<store, processed, files, env, vd, call, copyCalls, wconfig, handler, ingest>>

\* The file is removed, or its folder becomes unreadable.
FileVanish(s) ==
  /\ srcFile[s]
  /\ srcFile' = [srcFile EXCEPT ![s] = FALSE]
  /\ UNCHANGED <<store, destFile, tmpFile, env, vd, call, copyCalls, watch>>

\* ------------------------------------------- MovieFileHandler._process_file
SetH(h, r) == handler' = [handler EXCEPT ![h] = r]

\* _process_file returns: the locals are gone, the path and outcome stay.
EndH(c, r) == [IdleHandler EXCEPT !.pc = "done", !.path = c.path, !.res = r]

\* on_created / on_modified for a path that is not a directory event. The
\* observer delivers events on one thread: a handler runs to its end before
\* the next event is dispatched.
EventStart(h, s) ==
  /\ handler[h].pc = "idle"
  /\ \A g \in Handlers : g < h => handler[g].pc = "done"
  /\ SetH(h, [handler[h] EXCEPT !.pc = "v_exists", !.path = s])
  /\ UNCHANGED <<store, files, env, vd, call, copyCalls, wfile, wconfig, ingest>>

\* validate_file, lines 43-60: exists, isfile, exclusion pattern, extension.
ValidateChecks(h) ==
  /\ handler[h].pc = "v_exists"
  /\ LET c == handler[h]
         f == wfile[c.path]
     IN IF \/ ~srcFile[c.path]
           \/ ~f.regular
           \/ matches_exclude_pattern(f.name, wconfig.exclude_patterns)
           \/ ~is_video_file(f.name, wconfig.supported_extensions)
        THEN SetH(h, EndH(c, "invalid"))
        ELSE SetH(h, [c EXCEPT !.pc = "v_size"])
  /\ UNCHANGED <<store, files, env, vd, call, copyCalls, wfile, wconfig, ingest>>

\* validate_file, lines 63-68: os.path.getsize raises when the file is gone,
\* and the except branch of validate_file raises FileValidationError.
ValidateSize(h) ==
  /\ handler[h].pc = "v_size"
  /\ LET c == handler[h] IN
       IF ~srcFile[c.path] THEN SetH(h, EndH(c, "validation_error"))
       ELSE IF wfile[c.path].size < min_file_size_bytes THEN SetH(h, EndH(c, "invalid"))
       ELSE SetH(h, [c EXCEPT !.pc = "v_sample1"])
  /\ UNCHANGED <<store, files, env, vd, call, copyCalls, wfile, wconfig, ingest>>

\* _is_file_stable, line 117: the first sample; OSError gives False, which
\* validate_file reports as "still being written" and returns False.
StableSample1(h) ==
  /\ handler[h].pc = "v_sample1"
  /\ LET c == handler[h] IN
       IF ~srcFile[c.path] THEN SetH(h, EndH(c, "unstable"))
       ELSE SetH(h, [c EXCEPT !.pc = "v_sample2", !.size0 = wfile[c.path].size])
  /\ UNCHANGED <<store, files, env, vd, call, copyCalls, wfile, wconfig, ingest>>

\* _is_file_stable, lines 120-125: after the sleep, the second sample and the
\* comparison; validate_file returns its outcome.
StableSample2(h) ==
  /\ handler[h].pc = "v_sample2"
  /\ LET c == handler[h] IN
       IF ~srcFile[c.path] THEN SetH(h, EndH(c, "unstable"))
       ELSE IF is_file_stable(c.size0, wfile[c.path].size)
            THEN SetH(h, [c EXCEPT !.pc = "info", !.size1 = wfile[c.path].size])
            ELSE SetH(h, EndH(c, "unstable"))
  /\ UNCHANGED <<store, files, env, vd, call, copyCalls, wfile, wconfig, ingest>>

\* get_file_info: os.stat; an empty dict on any error ends the handling.
GetFileInfo(h) ==
  /\ handler[h].pc = "info"
  /\ LET c == handler[h] IN
       IF ~srcFile[c.path] THEN SetH(h, EndH(c, "no_info"))
       ELSE SetH(h, [c EXCEPT !.pc = "process"])
  /\ UNCHANGED <<store, files, env, vd, call, copyCalls, wfile, wconfig, ingest>>

\* _process_file, lines 69-81: process_file for the validated path; the
\* DatabaseError it raises is caught and logged.
HandlerProcess(h) ==
  /\ handler[h].pc = "process"
  /\ process_file(handler[h].path)
  /\ SetH(h, EndH(handler[h], ingest'.res))
  /\ UNCHANGED <<processed, files, env, vd, call, copyCalls, wfile, wconfig>>

InitWatcher ==
  /\ pending \in InitialTables
  /\ inserted = Cardinality({i \in Ids : pending[i] # NoRow})
  /\ processed = {}
  /\ srcFile = [s \in Paths |-> TRUE]
  /\ destFile = [n \in Names |-> NoFile]
  /\ tmpFile = [n \in Names |-> NoFile]
  /\ verify_mount = TRUE
  /\ mnamer_format = "arrow"
  /\ call = [p \in Calls |-> IdleCall]
  /\ copyCalls = [u \in Rows |-> 0]
  /\ wfile \in [Paths -> [name : FileNames, regular : BOOLEAN, size : {Sizes[1], Sizes[2]}]]
  /\ wconfig \in ConfigChoices
  /\ handler = [h \in Handlers |-> IdleHandler]
  /\ ingest = NoIngest
  /\ vd = IdleVersion

\* The watcher process: events arrive for the paths of the download folder
\* while the downloader writes and removes files.
NextWatcher ==
  \/ \E s \in Paths : FileWrite(s)
  \/ \E s \in Paths : FileVanish(s)
  \/ \E h \in Handlers, s \in Paths : EventStart(h, s)
  \/ \E h \in Handlers :
       \/ ValidateChecks(h)
       \/ ValidateSize(h)
       \/ StableSample1(h)
       \/ StableSample2(h)
       \/ GetFileInfo(h)
       \/ HandlerProcess(h)

SpecWatcher == InitWatcher /\ [][NextWatcher]_vars

\* ==================================================== the version resolver
\* VersionDetector on file names as strings (tuples of characters).
\* --------------------------------------------------------- str and int
Digits == <<"0", "1", "2", "3", "4", "5", "6", "7", "8", "9">>

IsDigit(ch) == \E d \in 1..Len(Digits) : Digits[d] = ch

DigitValue(ch) == (CHOOSE d \in 1..Len(Digits) : Digits[d] = ch) - 1

\* str(version): the decimal digits of a natural number.
RECURSIVE str(_)
str(n) ==
  IF n < 10 THEN <<Digits[n + 1]>>
  ELSE str(n \div 10) \o <<Digits[(n % 10) + 1]>>

\* int(match.group(1)): the value of a run of decimal digits.
RECURSIVE int(_)
int(s) ==
  IF Len(s) = 0 THEN 0
  ELSE 10 * int(SubSeq(s, 1, Len(s) - 1)) + DigitValue(s[Len(s)])

SetMin(S) == CHOOSE x \in S : \A y \in S : x <= y

\* str.strip() on the alphabet of the model: the only whitespace is " ".
strip(s) ==
  LET inked == {i \in 1..Len(s) : s[i] # " "} IN
    IF inked = {} THEN <<>> ELSE SubSeq(s, SetMin(inked), SetMax(inked))

\* pathlib's stem: the name without its suffix.
stem(name) == SubSeq(name, 1, Len(name) - Len(suffix(name)))

\* os.path.splitext: the extension starts at the last dot, unless only dots
\* come before it.
splitext(p) ==
  LET i == LastDot(p) IN
    IF i > 0 /\ \E k \in 1..(i - 1) : p[k] # "."
    THEN <<SubSeq(p, 1, i - 1), SubSeq(p, i, Len(p))>>
    ELSE <<p, <<>>>>

\* ------------------------------------------- the version suffix ".v{number}"
\* VersionDetectionConfig.format up to its {number} placeholder.
version_format == <<".", "v">>


\* The regular expression \.v\d+ matches at position i of s.
MarkerAt(s, i) ==
  /\ i + Len(version_format) <= Len(s)
  /\ SubSeq(s, i, i + Len(version_format) - 1) = version_format
  /\ IsDigit(s[i + Len(version_format)])

\* The last position of the greedy \d+ that starts at position i.
DigitRunEnd(s, i) ==
  CHOOSE e \in i..Len(s) :
    /\ \A k \in i..e : IsDigit(s[k])
    /\ e = Len(s) \/ ~IsDigit(s[e + 1])

\* VersionDetector._extract_version_number: re.search takes the leftmost
\* occurrence of \.v(\d+) anywhere in the filename; 1 when there is none.
extract_version_number_text(filename) ==
  LET found == {i \in 1..Len(filename) : MarkerAt(filename, i)} IN
    IF found = {} THEN 1
    ELSE LET i == SetMin(found)
             d == i + Len(version_format)
         IN int(SubSeq(filename, d, DigitRunEnd(filename, d)))

\* VersionDetector._add_version_suffix.
add_version_suffix(filename, version) ==
  LET parts == splitext(filename) IN
    parts[1] \o version_format \o str(version) \o parts[2]

\* VersionDetector._get_base_name: the stem, without a suffix \.v\d+ at its
\* very end, stripped of surrounding whitespace.
get_base_name(filename) ==
  LET name == stem(filename)
      tail == {i \in 1..Len(name) :
                 MarkerAt(name, i)
                 /\ DigitRunEnd(name, i + Len(version_format)) = Len(name)}
  IN strip(IF tail = {} THEN name ELSE SubSeq(name, 1, SetMin(tail) - 1))

\* difflib.SequenceMatcher.get_matching_blocks, summed: the longest common
\* block of a[alo..ahi] and b[blo..bhi] (the earliest in a, then the earliest
\* in b), plus the same on the pieces to its left and to its right.
RECURSIVE matching_blocks(_, _, _, _, _, _)
matching_blocks(a, b, alo, ahi, blo, bhi) ==
  LET RunLen(i, j) ==
        LET room == IF ahi - i < bhi - j THEN ahi - i + 1 ELSE bhi - j + 1 IN
          CHOOSE k \in 0..room :
            /\ \A d \in 0..(k - 1) : a[i + d] = b[j + d]
            /\ k = room \/ a[i + k] # b[j + k]
      size == SetMax({RunLen(i, j) : i \in alo..ahi, j \in blo..bhi} \cup {0})
  IN IF size = 0 THEN 0
     ELSE LET besti == SetMin({i \in alo..ahi : \E j \in blo..bhi : RunLen(i, j) = size})
              bestj == SetMin({j \in blo..bhi : RunLen(besti, j) = size})
          IN size + matching_blocks(a, b, alo, besti - 1, blo, bestj - 1)
                  + matching_blocks(a, b, besti + size, ahi, bestj + size, bhi)

\* VersionDetector._calculate_similarity: SequenceMatcher.ratio() of the
\* lowered strings, 2*M/T as the fraction <<2*M, T>>, and 1 for two empty
\* strings.
calculate_similarity(str1, str2) ==
  LET a == lower(str1)
      b == lower(str2)
  IN IF Len(a) + Len(b) = 0 THEN <<1, 1>>
     ELSE <<2 * matching_blocks(a, b, 1, Len(a), 1, Len(b)), Len(a) + Len(b)>>

\* similarity >= similarity_threshold on fractions.
AtLeast(ratio, threshold) == ratio[1] * threshold[2] >= threshold[1] * ratio[2]

\* VersionDetector._find_matches.
find_matches_text(filename, existing_files, check_similar) ==
  LET base_name == get_base_name(filename) IN
    {existing_file \in existing_files :
       LET existing_base_name == get_base_name(existing_file) IN
         \/ lower(base_name) = lower(existing_base_name)
         \/ /\ check_similar
            /\ AtLeast(calculate_similarity(base_name, existing_base_name),
                       similarity_threshold)}

get_highest_version_text_lowest(matches) ==
  SetMin({extract_version_number_text(match) : match \in matches} \cup {0})

\* VersionDetector._get_highest_version: 0 when nothing exceeds it.
get_highest_version_text(matches) ==
  SetMax({extract_version_number_text(match) : match \in matches} \cup {0})

\* VersionDetector.detect_version on a listing that was read.
detect_version_text(filename, existing_files, enabled, check_similar) ==
  IF ~enabled THEN <<filename, 1>>
  ELSE LET matches == find_matches_text(filename, existing_files, check_similar) IN
         IF matches = {} THEN <<filename, 1>>
         ELSE LET next_version == get_highest_version_text(matches) + 1 IN
                <<add_version_suffix(filename, next_version), next_version>>

\* ------------------------------------------------------------ the inputs
\* "a.m", "A.m", "b.m", "a", "a .m", "a.v0.m", "a.v2.m", "a.v10.m",
\* "a.v2.v3.m", "a.v1.a.m", "a.v1.a.v2.m", "movie.m", "movies.v3.m".
VersionNames ==
  { <<"a", ".", "m">>,
    <<"A", ".", "m">>,
    <<"b", ".", "m">>,
    <<"a">>,
    <<"a", " ", ".", "m">>,
    <<"a", ".", "v", "0", ".", "m">>,
    <<"a", ".", "v", "2", ".", "m">>,
    <<"a", ".", "v", "1", "0", ".", "m">>,
    <<"a", ".", "v", "2", ".", "v", "3", ".", "m">>,
    <<"a", ".", "v", "1", ".", "a", ".", "m">>,
    <<"a", ".", "v", "1", ".", "a", ".", "v", "2", ".", "m">>,
    <<"m", "o", "v", "i", "e", ".", "m">>,
    <<"m", "o", "v", "i", "e", "s", ".", "v", "3", ".", "m">> }

VersionExtensions == { <<".", "m">> }

\* The stems of the names, as base names to put a suffix on.
VersionBases == {stem(f) : f \in VersionNames}

Listings == {l \in SUBSET VersionNames : Cardinality(l) <= MaxListing}

\* One call of detect_version (filename, listing, config), or one round trip
\* extract(add_suffix(base + ext, version)), then "done" with the outcome.
DetectInputs ==
  [pc : {"detect"}, filename : VersionNames, listing : Listings,
   enabled : BOOLEAN, check_similar : BOOLEAN,
   version : {0}, out : {<<>>}, outver : {0}]

RoundTripInputs ==
  [pc : {"roundtrip"}, filename : {b \o e : b \in VersionBases, e \in VersionExtensions},
   listing : {{}}, enabled : {TRUE}, check_similar : {TRUE},
   version : 1..MaxVersion, out : {<<>>}, outver : {0}]

VersionDetect ==
  /\ vd.pc = "detect"
  /\ LET r == detect_version_text(vd.filename, vd.listing, vd.enabled, vd.check_similar)
     IN vd' = [vd EXCEPT !.pc = "detected", !.out = r[1], !.outver = r[2]]
  /\ UNCHANGED <<store, files, env, call, copyCalls, watch>>

VersionRoundTrip ==
  /\ vd.pc = "roundtrip"
  /\ LET versioned == add_version_suffix(vd.filename, vd.version)
     IN vd' = [vd EXCEPT !.pc = "extracted", !.out = versioned,
                         !.outver = extract_version_number_text(versioned)]
  /\ UNCHANGED <<store, files, env, call, copyCalls, watch>>

InitVersion ==
  /\ pending = [i \in Ids |-> NoRow]
  /\ inserted = 0
  /\ processed = {}
  /\ srcFile = [s \in Paths |-> TRUE]
  /\ destFile = [n \in Names |-> NoFile]
  /\ tmpFile = [n \in Names |-> NoFile]
  /\ verify_mount = TRUE
  /\ mnamer_format = "arrow"
  /\ call = [p \in Calls |-> IdleCall]
  /\ copyCalls = [u \in Rows |-> 0]
  /\ wfile = [s \in Paths |-> PlainFile]
  /\ wconfig = DefaultConfig
  /\ handler = [h \in Handlers |-> IdleHandler]
  /\ ingest = NoIngest
  /\ vd \in DetectInputs \cup RoundTripInputs

NextVersion ==
  \/ VersionDetect
  \/ VersionRoundTrip

SpecVersion == InitVersion /\ [][NextVersion]_vars

\* ================================================================ claims
Approving(p) == call[p].op = "approve"

\* copy_file of call p has been entered and has not yet returned or raised.
InCopy(p) == call[p].pc \in {"c_stream", "c_verify", "c_publish", "c_cleanup"}

\* copy_file of call p has returned or raised and the call is still running.
AfterCopy(p) ==
  /\ call[p].pc \in {"a_final", "a_final_commit", "a_delsrc", "a_fail", "a_fail_commit"}
  /\ call[p].name \in Names
  /\ call[p].err # "mnamer"

\* The except branch of approve_movie is running: its query or its commit.
Failing(p) == call[p].pc \in {"a_fail", "a_fail_commit"}

\* A record is one inserted row, named by the serial of its INSERT: it is
\* live while its row is in pending_movies, under whatever id.
Created(u) == u <= inserted
Live(u) == \E i \in Ids : Exists(i) /\ pending[i].uid = u
Record(u) ==
  IF Live(u) THEN pending[CHOOSE i \in Ids : Exists(i) /\ pending[i].uid = u] ELSE NoRow

ApprovedFor(u) == \E r \in processed : r.pid = u /\ r.action = "approved"
RejectedFor(u) == \E r \in processed : r.pid = u /\ r.action = "rejected"

\* C1: two approve_movie calls on one record never both go through: the
\* transfer engine runs at most once for the record, and the two calls do
\* not both return success.
C1_OneApprovalPerRecord ==
  /\ \A u \in Rows : copyCalls[u] <= 1
  /\ \A p, q \in Calls :
       (p # q /\ Approving(p) /\ Approving(q)
          /\ call[p].rec # 0 /\ call[p].rec = call[q].rec
          /\ call[p].pc = "done" /\ call[q].pc = "done")
       => ~(call[p].res = "success" /\ call[q].res = "success")

\* C2: when all max_retries attempts of copy_file failed at verification (and
\* the final name was free when the call began), copy_file has raised
\* FileCopyError and the target folder holds neither the final file nor the
\* ".tmp" file.
C2_VerifyFailureLeavesNothing ==
  \A p \in Calls :
    (Failing(p) /\ call[p].attempt = max_retries - 1
       /\ call[p].onlyVerify /\ ~call[p].preExist)
    => /\ call[p].err = "copy"
       /\ destFile[call[p].name] = NoFile
       /\ tmpFile[call[p].name] = NoFile

C3_NotPublishedEarly ==
  \A p \in Calls :
    InCopy(p) => /\ destFile[call[p].name].by # p
                 /\ ~call[p].preExist => destFile[call[p].name] = NoFile

C3_PublishStep ==
  \A p \in Calls :
    (call[p].pc = "c_publish" /\ call'[p].pc = "a_final")
    => /\ destFile'[call[p].name].by = p
       /\ destFile'[call[p].name].size = SrcSize

\* C3: while copy_file has not passed verification and renamed, the transfer
\* has put nothing under the final name (the name is free when it was free at
\* the start of the call), and the step that publishes puts a file of exactly
\* the source's size there.
C3_PublishedOnlyWhenVerified == []C3_NotPublishedEarly /\ [][C3_PublishStep]_vars

C3_Witness ==
  \E p \in Calls :
    /\ call[p].pc = "a_final"
    /\ destFile[call[p].name] = [size |-> SrcSize, by |-> p]

\* C4: once copy_file has returned or raised, whatever failed in its attempts,
\* the transfer's ".tmp" file is not in the target folder.
C4_NoTempAfterCopy ==
  \A p \in Calls : AfterCopy(p) => tmpFile[call[p].name].by # p

\* C5: copy_file makes at most max_retries attempts, and a retry attempt
\* starts with the temp file of the failed attempt before it deleted.
C5_RetryStartsClean ==
  \A p \in Calls :
    /\ InCopy(p) => call[p].attempt <= max_retries - 1
    /\ (call[p].pc = "c_stream" /\ call[p].attempt >= 1)
         => tmpFile[call[p].name].by # p

\* C6 as stated: an unreachable mount at the start of copy_file always ends
\* the call at once with NetworkShareError.
C6_UnreachableAlwaysShareError ==
  \A p \in Calls :
    call[p].mountDown => (Failing(p) /\ call[p].err = "share")

\* C6, amended: with verify_mount set, an unreachable mount at the start of
\* copy_file raises NetworkShareError with no copy attempt, no backoff wait
\* and no file of the transfer in the target folder.
C6_ShareUnavailable ==
  \A p \in Calls :
    (verify_mount /\ call[p].mountDown)
    => /\ Failing(p)
       /\ call[p].err = "share"
       /\ call[p].attempt = 0
       /\ call[p].waits = <<>>
       /\ \A n \in Names : destFile[n].by # p /\ tmpFile[n].by # p

C6_Witness ==
  \E p \in Calls :
    verify_mount /\ call[p].mountDown /\ call[p].pc = "a_fail" /\ call[p].err = "share"

C7_RefusalStep ==
  \A p \in Calls :
    (call[p].pc = "a_read" /\ call'[p] # call[p]
       /\ (~Exists(call[p].id) \/ pending[call[p].id].status # "pending"))
    => /\ call'[p].pc = "done"
       /\ call'[p].res \in {"not_found", "invalid_state"}
       /\ UNCHANGED <<store, files, copyCalls>>

\* C7: the status check of approve_movie on a missing or non-pending record
\* returns not found / invalid state at once and changes neither the store
\* nor any file; no renamer or copy_file call follows.
C7_RefusalChangesNothing == [][C7_RefusalStep]_vars

C7_Witness ==
  \E p \in Calls :
    /\ call[p].pc = "done" /\ Approving(p) /\ call[p].res = "invalid_state"
    /\ Exists(call[p].id) /\ pending[call[p].id].status = "failed"

\* The step in which an approval that failed with error e ends.
EndsAfter(p, errs) ==
  Failing(p) /\ call[p].err \in errs /\ call'[p].pc = "done"

FailureRecorded(p) ==
  /\ call'[p].res = "failed"
  /\ pending'[call[p].id].status = "failed"
  /\ pending'[call[p].id].error = call[p].err
  /\ processed' = processed

C8_RenamerFailureStep ==
  \A p \in Calls :
    EndsAfter(p, {"mnamer"}) => FailureRecorded(p) /\ call[p].name = NoName

\* C8: an approval whose renamer failed returns an unsuccessful result with
\* the record in status failed and the error recorded, creates no
\* TerminalRecord and never calls copy_file.
C8_RenamerFailureRecorded == [][C8_RenamerFailureStep]_vars

C9_TransferFailureStep ==
  \A p \in Calls : EndsAfter(p, {"share", "copy"}) => FailureRecorded(p)

\* C9: an approval whose copy_file raised NetworkShareError or FileCopyError
\* returns an unsuccessful result with the record kept in status failed and
\* the error recorded, and creates no TerminalRecord.
C9_TransferFailureRecorded == [][C9_TransferFailureStep]_vars

C10_Disposition ==
  \A u \in Rows :
    /\ Live(u) => ~ApprovedFor(u)
    /\ (Created(u) /\ ~Live(u) /\ ~RejectedFor(u)) => ApprovedFor(u)

C10_CommitStep ==
  /\ \A u \in Rows : (ApprovedFor(u)' /\ ~ApprovedFor(u)) => (Live(u) /\ ~Live(u)')
  /\ \A p \in Calls :
       (call[p].pc = "a_final_commit" /\ call'[p].pc = "a_fail")
       => UNCHANGED <<pending, processed>>

\* C10: the approved TerminalRecord and the PendingRecord of one record never
\* coexist, a record that is gone without a rejection has its approved
\* TerminalRecord, the two change in one step, and a failed commit of that
\* transaction changes neither.
C10_BothOrNeither == []C10_Disposition /\ [][C10_CommitStep]_vars

C10_Witness ==
  \E u \in Rows : Created(u) /\ ~Live(u) /\ ApprovedFor(u) /\ ~RejectedFor(u)
C11_NoDeleteOnFailure ==
  \A p \in Calls :
    (call[p].pc = "done" /\ Approving(p) /\ call[p].res # "success") => ~call[p].ds

C11_DeleteStep ==
  \A s \in Paths :
    srcFile'[s] # srcFile[s]
    => \E p \in Calls :
         /\ call[p].pc \in {"a_delsrc", "r_delsrc"}
         /\ call[p].path = s
         /\ call'[p].pc = "done" /\ call'[p].res = "success"
         /\ call[p].pc = "a_delsrc"
              => /\ destFile[call[p].name] = [size |-> SrcSize, by |-> p]
                 /\ ~Live(call[p].rec)
                 /\ \E r \in processed :
                      /\ r.by = p /\ r.pid = call[p].rec /\ r.action = "approved"
                      /\ r.final = call[p].name

\* C11: approve_movie removes the source file only in its last step, after
\* the file has been published under the final name and the approved
\* TerminalRecord has been committed with the PendingRecord deleted; an
\* approval that ends without success has not removed the source.
C11_SourceDeletedLast == []C11_NoDeleteOnFailure /\ [][C11_DeleteStep]_vars

\* C12 as stated: a reject_movie call that went through on an existing record
\* has left a rejected TerminalRecord (final path and filename null), the
\* PendingRecord gone and, with delete_source, the source file absent.
C12_RejectAlwaysDisposes ==
  \A p \in Calls :
    (call[p].pc = "done" /\ call[p].op = "reject" /\ call[p].res = "success")
    => /\ ~Live(call[p].rec)
       /\ \E r \in processed :
            /\ r.by = p /\ r.pid = call[p].rec /\ r.action = "rejected"
            /\ r.final = NoName
            /\ call[p].ds => ~srcFile[r.path]

C12_RejectStep ==
  \A p \in Calls :
    LET c == call[p]
        r == Terminal(c, p, "rejected")
    IN (c.op = "reject" /\ call'[p] # c)
       => /\ UNCHANGED <<destFile, tmpFile, copyCalls>>
          /\ call'[p].name = NoName
          /\ (c.pc = "r_read" /\ Exists(c.id)) => call'[p].pc = "r_commit"
          /\ c.pc = "r_commit"
               => \/ /\ call'[p].res = "failed"
                     /\ UNCHANGED <<store, srcFile>>
                  \/ /\ r.final = NoName /\ r.action = "rejected" /\ r \notin processed
                     /\ processed' = processed \cup {r}
                     /\ Exists(c.id) /\ ~Exists(c.id)'
                     /\ call'[p].pc = "r_delsrc" \/ call'[p].res = "success"
                     /\ srcFile' = srcFile
          /\ c.pc = "r_delsrc"
               => /\ call'[p].res = "success"
                  /\ UNCHANGED store
                  /\ srcFile' \in {srcFile, [srcFile EXCEPT ![c.path] = FALSE]}

\* C12, amended: reject_movie on an existing record of any status goes to its
\* transaction; when that commits, the rejected TerminalRecord (final path and
\* filename null) is added and the PendingRecord deleted in one step, else
\* nothing changes and the result is unsuccessful; with delete_source the
\* removal of the source follows the commit and its failure leaves the file
\* in place with a successful result; no renamer or copy_file call is made.
C12_RejectDisposes == [][C12_RejectStep]_vars

C12_Witness ==
  \E p, q \in Calls :
    /\ call[p].pc = "done" /\ call[p].op = "reject" /\ call[p].res = "success"
    /\ call[p].ds
    /\ Approving(q) /\ call[q].rec = call[p].rec /\ call[q].res = "failed"
    /\ \E r \in processed : r.by = p /\ r.action = "rejected" /\ ~srcFile[r.path]

C13_StatusStep ==
  \A i \in Rows :
    LET a == Record(i).status
        b == Record(i)'.status
    IN a # b
       => \/ a = "absent" /\ b = "pending"
          \/ a = "pending" /\ b = "processing"
          \/ a = "processing" /\ b = "failed"
          \/ a = "processing" /\ b = "absent" /\ ApprovedFor(i)' /\ ~ApprovedFor(i)
          \/ b = "absent" /\ RejectedFor(i)' /\ processed' # processed

\* C13: a PendingRecord's status moves only pending -> processing, then
\* processing -> failed or processing -> disposed as approved; a reject
\* disposes a record of any status; nothing returns to pending or processing.
C13_StatusMonotonic == [][C13_StatusStep]_vars

C13_Witness ==
  \E i \in Ids : pending[i].status = "failed" /\ pending[i].error = "copy"

\* C14: an approved TerminalRecord has a final path and version_number >= 1;
\* a rejected TerminalRecord has no final path and no version_number (0
\* stands for null).
C14_TerminalFields ==
  \A r \in processed :
    /\ r.action = "approved" => (r.final # NoName /\ r.ver >= 1)
    /\ r.action = "rejected" => (r.final = NoName /\ r.ver = 0)

\* C15: under interleaved approve_movie / reject_movie calls, a disposed
\* PendingRecord has exactly one TerminalRecord and no record has two.
C15_OneTerminalPerRecord ==
  \A u \in Rows :
    LET n == Cardinality({r \in processed : r.pid = u}) IN
      /\ n <= 1
      /\ (Created(u) /\ ~Live(u)) => n = 1

\* C16: no approve_movie or reject_movie call leaves by an exception.
C16_NeverRaises ==
  \A p \in Calls : call[p].pc = "done" => call[p].res # "raised"
RowsOf(s) == {i \in Ids : Exists(i) /\ pending[i].path = s}

\* C17: no two PendingRecords share a source path, and every call of
\* process_file for a path has returned the new record or "already tracked",
\* with exactly one PendingRecord for the path in the store.
C17_IngestYieldsOneRecord ==
  /\ \A s \in Paths : Cardinality(RowsOf(s)) <= 1
  /\ \A h \in Handlers :
       (handler[h].pc = "done"
          /\ handler[h].res \in {"created", "tracked", "database_error"})
       => /\ handler[h].res \in {"created", "tracked"}
          /\ Cardinality(RowsOf(handler[h].path)) = 1

InValidation(h) == handler[h].pc \in {"v_exists", "v_size", "v_sample1", "v_sample2"}

\* The static criteria of the claim, for a file of the download folder.
C18_Eligible(f) ==
  /\ f.regular
  /\ ~matches_exclude_pattern(f.name, wconfig.exclude_patterns)
  /\ \E e \in wconfig.supported_extensions : lower(e) = lower(suffix(f.name))

C18_PassStep ==
  \A h \in Handlers :
    (InValidation(h) /\ handler'[h] # handler[h] /\ srcFile[handler[h].path])
    => LET c == handler[h]
           f == wfile[c.path]
           d == handler'[h]
       IN /\ (c.pc = "v_exists" /\ C18_Eligible(f)) => d.pc = "v_size"
          /\ (c.pc = "v_size" /\ f.size >= min_file_size_bytes) => d.pc = "v_sample1"
          /\ c.pc = "v_sample1" => (d.pc = "v_sample2" /\ d.size0 = f.size)
          /\ (c.pc = "v_sample2" /\ f.size = c.size0) => d.pc = "info"

\* C18: for an existing regular file with no matching exclusion pattern, a
\* supported extension (compared without case), a size of at least the
\* minimum and equal sizes at the two stability samples, each check of
\* validate_file passes and validate_file returns True.
C18_EligibleFilePasses == [][C18_PassStep]_vars

C18_Witness ==
  \E h \in Handlers :
    /\ handler[h].pc = "info"
    /\ wfile[handler[h].path].name = <<"a", ".", "M">>
    /\ wconfig.supported_extensions = {<<".", "m">>}

C19_OnlyStableGoesOn ==
  \A h \in Handlers :
    handler[h].pc \in {"info", "process"} => handler[h].size0 = handler[h].size1

C19_UnstableStep ==
  /\ \A h \in Handlers :
       LET c == handler[h] IN
         (c.pc = "v_sample2" /\ handler'[h] # c /\ srcFile[c.path]
            /\ wfile[c.path].size # c.size0)
         => /\ handler'[h].pc = "done"
            /\ handler'[h].res = "unstable"
            /\ UNCHANGED store
  /\ pending' # pending => \E h \in Handlers : handler[h].pc = "process"

\* C19: when the two stability samples differ, validate_file returns False
\* and the handling ends without touching the store; a PendingRecord is
\* inserted only by a handling whose two samples were equal.
C19_UnstableFileRejected == []C19_OnlyStableGoesOn /\ [][C19_UnstableStep]_vars

C19_Witness ==
  \E h \in Handlers :
    /\ handler[h].pc = "done" /\ handler[h].res = "unstable"
    /\ srcFile[handler[h].path]
    /\ RowsOf(handler[h].path) = {}

\* C20: validate_file never raises: a file that disappears or becomes
\* unreadable during the checks gives the value "not valid".
C20_ValidationNeverRaises ==
  \A h \in Handlers : handler[h].res # "validation_error"
\* C21: while a handling is in its stability wait, an event for another path
\* can be taken up and its validation started.
C21_EventsTakenDuringWait ==
  \A h \in Handlers :
    (handler[h].pc = "v_sample2" /\ \E g \in Handlers : handler[g].pc = "idle")
    => ENABLED (\E g \in Handlers, s \in Paths :
                  s # handler[h].path /\ EventStart(g, s))

C25_ListingFailureIsEmpty ==
  \A p \in Calls :
    call[p].listFail
    => /\ call[p].name \in {<<b, 0>> : b \in Bases}
       /\ call[p].ver = 1

C25_DetectStep ==
  \A p \in Calls :
    (call[p].pc = "a_detect" /\ call'[p] # call[p]) => call'[p].pc = "c_start"

\* C25: when the target folder cannot be listed, detect_version returns the
\* renamer's filename unchanged with version 1, and the step after
\* detect_version is always copy_file: the resolver never fails an approval.
C25_UnreadableListingProceeds == []C25_ListingFailureIsEmpty /\ [][C25_DetectStep]_vars

C25_Witness ==
  \E p \in Calls :
    /\ call[p].listFail /\ call[p].pc = "c_stream" /\ call[p].preExist
    /\ call[p].ver = 1

\* C26: once an approve_movie call that set its record to processing has
\* returned or raised, the record is not in status processing.
C26_NoRecordLeftProcessing ==
  \A p \in Calls :
    (call[p].pc = "done" /\ Approving(p)
       /\ call[p].res \notin {"not_found", "invalid_state"})
    => Record(call[p].rec).status # "processing"

\* C27 as stated: the three failed attempts of copy_file are followed by
\* waits of 1, 2 and 4 seconds.
C27_ThreeWaits ==
  \A p \in Calls :
    (Failing(p) /\ call[p].err = "copy" /\ call[p].attempt = max_retries - 1)
    => call[p].waits = <<1, 2, 4>>

\* C27, amended: failed attempt k of copy_file is followed by a wait of
\* 2^(k-1) seconds for k = 1 and 2; the last failed attempt is followed by
\* no wait.
C27_WaitsDouble ==
  \A p \in Calls :
    /\ Len(call[p].waits) = call[p].attempt
    /\ Len(call[p].waits) <= max_retries - 1
    /\ \A k \in 1..Len(call[p].waits) : call[p].waits[k] = 2 ^ (k - 1)

C27_Witness ==
  \E p \in Calls :
    call[p].pc = "a_fail" /\ call[p].err = "copy" /\ call[p].waits = <<1, 2>>

\* The renamer or the transfer engine is running for call p.
InExternalCall(p) ==
  call[p].pc \in {"a_rename", "a_mnamer", "c_start", "c_stream", "c_verify", "c_publish", "c_cleanup"}

C28_NoSessionAcrossExternal ==
  \A p \in Calls : InExternalCall(p) => ~call[p].session

C28_SessionStep ==
  \A p \in Calls :
    /\ (call[p].pc # "a_rename" /\ call'[p].pc = "a_rename")
         => /\ call[p].session /\ ~call'[p].session
            /\ pending'[call[p].id].status = "processing"
    /\ (~call[p].session /\ call'[p].session /\ Approving(p)')
         => \/ call[p].pc = "a_read"
            \/ /\ call[p].pc = "a_final"
               /\ destFile[call[p].name].by = p
            \/ call[p].pc = "a_fail"

\* C28: no session of the call is open while the renamer or copy_file runs:
\* the renamer starts in the step that commits status processing and closes
\* the first session, the step-6 session is opened only after copy_file has
\* published the file and returned, and the session of the except branch
\* only after the renamer or copy_file has raised.
C28_SessionsClosedAroundExternal ==
  []C28_NoSessionAcrossExternal /\ [][C28_SessionStep]_vars

C28_Witness ==
  \E p \in Calls :
    /\ call[p].pc = "a_final_commit" /\ call[p].session
    /\ destFile[call[p].name].by = p
    /\ pending[call[p].id].status = "processing"

\* The exclusion globs as the specification words them: a leading "*"
\* matches a suffix, a trailing "*" a prefix, anything else the whole name.
C29_Excluded(name) ==
  \E g \in wconfig.exclude_patterns :
    \/ g = name
    \/ Head(g) = "*" /\ Len(g) - 1 <= Len(name)
         /\ \A k \in 2..Len(g) : name[Len(name) - Len(g) + k] = g[k]
    \/ g[Len(g)] = "*" /\ Len(g) - 1 <= Len(name)
         /\ \A k \in 1..(Len(g) - 1) : name[k] = g[k]

C29_Passed(h, n) ==
  LET f == wfile[handler[h].path] IN
    /\ n >= 1 => f.regular
    /\ n >= 2 => ~C29_Excluded(f.name)
    /\ n >= 3 => \E e \in wconfig.supported_extensions : lower(e) = lower(suffix(f.name))
    /\ n >= 4 => f.size >= min_file_size_bytes

C29_WaitOnlyAfterChecks ==
  \A h \in Handlers :
    /\ handler[h].pc = "v_size" => C29_Passed(h, 3)
    /\ handler[h].pc \in {"v_sample1", "v_sample2"} => C29_Passed(h, 4)

C29_FirstFailureStep ==
  \A h \in Handlers :
    (handler[h].pc = "v_exists" /\ handler'[h] # handler[h] /\ ~C29_Passed(h, 3))
    => (handler'[h].pc = "done" /\ handler'[h].res = "invalid")

\* C29: validate_file reaches the size test only for a regular file that
\* passed the exclusion and extension tests, and reaches the stability wait
\* only when the size test passed too; a file failing one of the first tests
\* is refused at once, without a wait.
C29_ChecksInOrder == []C29_WaitOnlyAfterChecks /\ [][C29_FirstFailureStep]_vars

C29_Witness ==
  \E h \in Handlers :
    /\ handler[h].pc = "v_sample2"
    /\ wconfig.exclude_patterns = {<<"p", "*">>, <<"a", ".", "M">>}
    /\ wfile[handler[h].path].name = <<"a", ".", "m">>

\* The handling of h passed validation and its path has no PendingRecord.
C30_ValidatedNew(h) ==
  LET c == handler[h] IN
    /\ c.pc = "process"
    /\ c.size0 = c.size1 /\ c.size0 >= min_file_size_bytes
    /\ ~C29_Excluded(wfile[c.path].name)
    /\ RowsOf(c.path) = {}

C30_InsertStep ==
  /\ \A h \in Handlers :
       (handler'[h] # handler[h] /\ handler'[h].res \in {"created", "database_error"})
       => C30_ValidatedNew(h)
  /\ pending' # pending
     => \E h \in Handlers :
          /\ C30_ValidatedNew(h)
          /\ handler'[h].res = "created"
          /\ \E i \in Ids :
               /\ ~Exists(i)
               /\ pending' = [pending EXCEPT ![i] =
                                [status |-> "pending", error |-> "none",
                                 path |-> handler[h].path, uid |-> inserted + 1]]

\* C30: the PendingRecord of a path is built and handed to the store only by
\* a handling whose validation passed and only for a path that has no
\* PendingRecord; a row appears in pending_movies only by such a handling,
\* and with status pending.
C30_InsertOnlyValidatedNew == [][C30_InsertStep]_vars

C30_Witness ==
  \E g, h \in Handlers :
    /\ handler[g].pc = "done" /\ handler[g].res = "tracked"
    /\ handler[h].pc = "done" /\ handler[h].res = "database_error"
    /\ wfile[handler[h].path].name = <<"a", ".", "m">>
    /\ RowsOf(handler[h].path) = {}

\* --------------------------------------------------------------- C22
\* The version number of a listed file as the resolver's contract counts it:
\* the integer of the version suffix that stands before the extension, and 1
\* when there is no such suffix.
C22_SuffixVersion(f) ==
  LET name == stem(f)
      tail == {i \in 1..Len(name) :
                 MarkerAt(name, i)
                 /\ DigitRunEnd(name, i + Len(version_format)) = Len(name)}
  IN IF tail = {} THEN 1
     ELSE int(SubSeq(name, SetMin(tail) + Len(version_format), Len(name)))

\* C22: detect_version returns the candidate unchanged with version 1 when no
\* file of the listing matches; otherwise, with V the maximum version number
\* among the matches, it returns the candidate with the suffix for V+1 before
\* the extension, and version number V+1.
C22_NextVersionAfterMax ==
  (vd.pc = "detected" /\ vd.enabled)
  => LET matches == find_matches_text(vd.filename, vd.listing, vd.check_similar) IN
       IF matches = {}
       THEN vd.out = vd.filename /\ vd.outver = 1
       ELSE LET V == SetMax({C22_SuffixVersion(f) : f \in matches}) IN
              /\ vd.outver = V + 1
              /\ vd.out = stem(vd.filename) \o version_format \o str(V + 1)
                            \o suffix(vd.filename)

\* --------------------------------------------------------------- C23
\* C23: for every base name B without a trailing version suffix and every
\* version V >= 1, extracting the version of B + ext with the suffix for V
\* added gives V back.
C23_ExtractAfterAddIsIdentity ==
  (vd.pc = "extracted" /\ get_base_name(vd.filename) = stem(vd.filename))
  => vd.outver = vd.version

\* --------------------------------------------------------------- C24
\* C24: with version detection enabled, the filename detect_version returns
\* is not the name of any file of the listing.
C24_CollisionFree ==
  (vd.pc = "detected" /\ vd.enabled) => vd.out \notin vd.listing

\* --------------------------------------------------------------- C31
C31_Step == processed \subseteq processed'

\* C31: a TerminalRecord, once created, is never modified and never deleted
\* by an ingest, approve or reject operation: every step keeps every record
\* of processed_movies as it is.
C31_TerminalRecordsKept == [][C31_Step]_vars

\* A second disposition was committed while a TerminalRecord existed.
C31_Witness ==
  \E t \in processed, u \in processed : t.by < u.by

\* --------------------------------------------------------------- C32
\* C32: a PendingRecord has an error_message exactly when its status is
\* failed.
C32_ErrorMessageIffFailed ==
  \A i \in Ids :
    Exists(i) => (pending[i].error # "none" <=> pending[i].status = "failed")

\* An approval recorded a failure.
C32_Witness ==
  \E i \in Ids, p \in Calls :
    /\ Exists(i) /\ pending[i].status = "failed" /\ pending[i].error # "none"
    /\ call[p].pc = "done" /\ call[p].id = i /\ call[p].res = "failed"

\* --------------------------------------------------------------- C33
\* C33: when the final name already exists as copy_file starts, the engine
\* can go on to its copy attempts, and once it has published, the final name
\* holds the file this call copied, of the source's size.
C33_ExistingNameIsReplaced ==
  \A p \in Calls :
    /\ (call[p].pc = "c_start" /\ destFile[call[p].name] # NoFile
           /\ srcFile[call[p].path])
       => ENABLED (CopyStart(p) /\ call'[p].pc = "c_stream")
    /\ (call[p].pc = "a_final" /\ call[p].preExist)
       => destFile[call[p].name] = [size |-> SrcSize, by |-> p]

\* A transfer onto an existing final name has published its copy.
C33_Witness ==
  \E p \in Calls :
    /\ call[p].pc = "a_final" /\ call[p].preExist
    /\ destFile[call[p].name].by = p

\* --------------------------------------------------------------- C34
\* The output holds no arrow and no "renamed to" phrase.
C34_NoPattern(out) ==
  \A k \in 1..Len(out) : \A j \in 1..Len(out[k]) :
    out[k][j] \notin {AsciiArrow, UnicodeArrow, RenamedTo}

C34_Unparsed(p) == call[p].rn.code = "zero" /\ C34_NoPattern(call[p].rn.out)

\* The renamer exited with zero and printed no pattern: no filename came of
\* it and no transfer was started.
C34_NoFilename ==
  \A p \in Calls :
    C34_Unparsed(p)
    => /\ Failing(p) /\ call[p].err = "mnamer"
       /\ call[p].name = NoName /\ call[p].attempt = 0

C34_EndStep ==
  \A p \in Calls :
    (C34_Unparsed(p) /\ call'[p].pc = "done")
    => /\ pending'[call[p].id].status = "failed"
       /\ call'[p].res = "failed"
       /\ copyCalls' = copyCalls

\* C34: when the renamer exits with code zero and its output has no arrow and
\* no "renamed to" phrase, rename_movie yields no filename, and approve_movie
\* ends with the record in status failed and no transfer attempted.
C34_UnparsedOutputFails == []C34_NoFilename /\ [][C34_EndStep]_vars

\* --------------------------------------------------------------- C35
\* The call has its final filename and is inside copy_file.
C35_Transferring(p) ==
  /\ Approving(p)
  /\ call[p].pc \in {"c_stream", "c_verify", "c_publish", "c_cleanup"}
  /\ ~call[p].listFail

\* C35: two approvals of distinct records that run at the same time, for
\* which the renamer proposed the same filename, never transfer to the same
\* final name (and so never to the same temp path).
C35_ConcurrentTargetsDiffer ==
  \A p \in Calls, q \in Calls :
    (p # q /\ call[p].rec # call[q].rec /\ C35_Transferring(p) /\ C35_Transferring(q))
    => call[p].name # call[q].name

\* --------------------------------------------------------------- C36
\* C36: when approve_movie returned success for a record, that approval has
\* created an approved TerminalRecord for it and the PendingRecord is gone.
C36_SuccessMeansApproved ==
  \A p \in Calls :
    (call[p].pc = "done" /\ call[p].op = "approve" /\ call[p].res = "success")
    => /\ \E t \in processed :
            t.pid = call[p].rec /\ t.action = "approved" /\ t.by = p
       /\ ~Live(call[p].rec)

\* --------------------------------------------------------------- C37
\* C37: when an approval has ended unsuccessfully, the target folder holds
\* no file that this approval published under a final name.
C37_FailedApprovalPublishedNothing ==
  \A p \in Calls :
    (call[p].pc = "done" /\ call[p].op = "approve" /\ call[p].res = "failed")
    => \A n \in Names : destFile[n] = NoFile \/ destFile[n].by # p

\* --------------------------------------------------------------- C38
\* copy_file of call p has raised and the final name existed when it began.
C38_FailedOntoExisting(p) ==
  /\ Failing(p) /\ call[p].err \in {"copy", "share"}
  /\ call[p].preExist

C38_StillThere ==
  \A p \in Calls :
    C38_FailedOntoExisting(p)
    => (destFile[call[p].name] # NoFile /\ destFile[call[p].name].by # p)

C38_Step ==
  \A p \in Calls :
    (call[p].pc \in {"c_start", "c_stream", "c_verify", "c_publish", "c_cleanup"}
       /\ call'[p] # call[p] /\ call'[p].pc # "a_final")
    => destFile' = destFile

\* C38: when copy_file fails and a file existed under the final name before
\* the call, that file is still there and unchanged: no step of a copy_file
\* that does not publish changes the target folder's final names.
C38_ExistingFileSurvivesFailure == []C38_StillThere /\ [][C38_Step]_vars

\* All attempts onto an existing final name have failed.
C38_Witness ==
  \E p \in Calls :
    /\ C38_FailedOntoExisting(p) /\ call[p].attempt = max_retries - 1
    /\ destFile[call[p].name] # NoFile

\* --------------------------------------------------------------- C39
\* C39: a source path that has been disposed (a TerminalRecord exists for
\* it) gets no new PendingRecord from later events for that path, and is
\* not approved a second time.
C39_DisposedPathNotReingested ==
  /\ \A i \in Ids :
       Exists(i) => ~ \E t \in processed : t.path = pending[i].path
  /\ \A t, u \in processed :
       (t.path = u.path /\ t.action = "approved" /\ u.action = "approved") => t = u

\* A path was disposed with its source file left in place, and process_file
\* has run for it since.
C39_Witness ==
  \E t \in processed :
    /\ srcFile[t.path]
    /\ ingest.path = t.path /\ ingest.res = "database_error"
    /\ ~AlreadyTracked(t.path)

\* --------------------------------------------------------------- C40
C40_Matches == find_matches_text(vd.filename, vd.listing, vd.check_similar)

\* C40 as amended: when detect_version found a match, the version number it
\* returns is at least 1 and greater than the version number extracted from
\* every match; it is at least 2 unless every match carries version 0.
C40_VersionAboveExtracted ==
  (vd.pc = "detected" /\ vd.enabled /\ C40_Matches # {})
  => /\ vd.outver >= 1
     /\ \A f \in C40_Matches : vd.outver > extract_version_number_text(f)
     /\ vd.outver >= 2 \/ \A f \in C40_Matches : extract_version_number_text(f) = 0

\* Two matches with different versions, the higher one above 1.
C40_Witness ==
  /\ vd.pc = "detected" /\ vd.enabled
  /\ \E f \in C40_Matches, g \in C40_Matches :
       /\ extract_version_number_text(f) < extract_version_number_text(g)
       /\ vd.outver = extract_version_number_text(g) + 1
       /\ vd.outver > 2

\* C40: when detect_version found a match, the version number it returns is
\* at least 2 and greater than the version number extracted from every match.
C40_VersionAboveMatches ==
  (vd.pc = "detected" /\ vd.enabled)
  => LET matches == find_matches_text(vd.filename, vd.listing, vd.check_similar) IN
       matches # {}
       => /\ vd.outver >= 2
          /\ \A f \in matches : vd.outver > extract_version_number_text(f)

====
